---- MODULE Spec2Model ----
(***************************************************************************)
(* Plinko iPRF: Swap-or-Not PRP, PMNS tree router, iPRF composition and    *)
(* the constant-time binomial samplers.                                    *)
(*                                                                         *)
(* u64 values are modelled as WordBits-bit words.  An arithmetic overflow  *)
(* panics when the build has overflow checks (debug/test profile) and      *)
(* wraps otherwise (release profile); the build is fixed per behaviour by  *)
(* the variable overflowChecks.  A panic is the value PANIC and propagates *)
(* through every later operation of the same call.                         *)
(***************************************************************************)
EXTENDS Integers, Sequences, FiniteSets, TLC

\* ------------------------------------------------------------------ bounds
WordBits == 3
KeyPeriod == 2
MaxPrpDomain == 5
MaxParamArea == 8
F64Bits == 7
ErrMax == 3
CountBits == 9
MaxBound == 2
MaxRange == 4
MaxLevel == 2
PrecomputeMaxN == 4
MaxCalls == 2
PrfBits == 1
MaxThreads == 2

Word == 2 ^ WordBits
MaxWord == Word - 1
Words == 0 .. MaxWord

PANIC == -1

VARIABLES
    overflowChecks,   \* TRUE: overflow panics; FALSE: overflow wraps
    prpDomain,        \* SwapOrNot.domain
    prpKey,           \* the cipher under the PRP subkey, as its outputs
    prpOutputs,       \* <<forward(0), ..., forward(domain - 1)>>, or <<>>
    prpTrip,          \* <<x, forward(x), inverse(forward(x))>>, or <<>>
    prpCall,          \* the PRP call traced round by round, or NoPrpCall
    iprfDomain,       \* Iprf.domain (n)
    iprfRange,        \* Iprf.range (m)
    memoF,            \* the splits drawn so far: {<<low, high, count, left>>}
    pc,               \* "idle", "trace_ball" or "trace_ball_inverse"
    arg,              \* the argument of the running call
    low, high,        \* the node interval of the running descent
    ball_count,       \* balls at the node
    ball_pos,         \* ball_index (forward) or ball_start (inverse)
    trips,            \* iterations of `while low < high` made by the call
    split,            \* <<ball count, left_count>> of the last iteration
    fwds,             \* forward(0), forward(1), ...: <<status, <<value>>>>
    runs,             \* inverse(0), inverse(1), ...: <<status, vector>>
    last,             \* the last call returned: <<name, argument, status, result>>
    prpEvals,         \* PRP evaluations made so far
    probe,            \* <<n, result>> of a direct binomial_inverse_cdf call
    sampler,          \* the TEE sampler constructed
    call,             \* the arguments and locals of the running sample call
    rets,             \* the sample calls returned, in order
    lazyState,        \* CDF_TABLES: "uninit", "running" or "complete"
    CDF_TABLES,       \* the table stored in the Lazy, or <<>>
    initRuns,         \* the times the initialiser was entered
    threads           \* each thread's position in sample_half and its locals

prpVars == <<prpDomain, prpKey, prpOutputs, prpTrip, prpCall>>
instVars == <<overflowChecks, iprfDomain, iprfRange, prpDomain, prpKey>>
callVars == <<pc, arg, low, high, ball_count, ball_pos, trips, split>>
memoVars == <<memoF>>
resVars == <<fwds, runs, last, prpEvals, probe>>
pmnsVars == <<iprfDomain, iprfRange, memoF, pc, arg, low, high,
              ball_count, ball_pos, trips, split, fwds, runs, last, prpEvals,
              probe>>

samplerVars == <<sampler, call, rets>>

tableVars == <<lazyState, CDF_TABLES, initRuns, threads>>

vars == <<overflowChecks, prpDomain, prpKey, prpOutputs, prpTrip, prpCall,
          iprfDomain,
          iprfRange, memoF, pc, arg, low, high, ball_count,
          ball_pos, trips, split, fwds, runs, last, prpEvals, probe, sampler, call, rets,
          lazyState, CDF_TABLES, initRuns, threads>>

\* ------------------------------------------------------- word arithmetic
Max(a, b) == IF a >= b THEN a ELSE b
Min(a, b) == IF a <= b THEN a ELSE b

\* a + b on u64
AddW(a, b) ==
    IF a = PANIC \/ b = PANIC THEN PANIC
    ELSE IF a + b > MaxWord
         THEN (IF overflowChecks THEN PANIC ELSE (a + b) % Word)
         ELSE a + b

\* a - b on u64
SubW(a, b) ==
    IF a = PANIC \/ b = PANIC THEN PANIC
    ELSE IF a < b
         THEN (IF overflowChecks THEN PANIC ELSE a - b + Word)
         ELSE a - b

\* a % b on u64: a remainder by zero panics in every build
RemW(a, b) ==
    IF a = PANIC \/ b = PANIC \/ b = 0 THEN PANIC ELSE a % b

\* ceil(log2(v)) for v >= 1, as (v as f64).log2().ceil()
RECURSIVE CeilLog2(_)
CeilLog2(v) == IF v <= 1 THEN 0 ELSE 1 + CeilLog2((v + 1) \div 2)

RECURSIVE BitLen(_)
BitLen(v) == IF v = 0 THEN 0 ELSE 1 + BitLen(v \div 2)

\* v as f64: the nearest value with F64Bits significant bits, ties to even
AsF64(v) ==
    IF v < 2 ^ F64Bits THEN v
    ELSE LET unit == 2 ^ (BitLen(v) - F64Bits)
             q == v \div unit
             r == v % unit
             up == 2 * r > unit \/ (2 * r = unit /\ q % 2 = 1)
         IN  (IF up THEN q + 1 ELSE q) * unit

\* ---------------------------------------------------------- Swap-or-Not
\* The cipher is a fixed function of its input block.  Its outputs are drawn
\* from the functions that repeat with period KeyPeriod in each field of the
\* block (the round index, the canonical representative): rk[i] is the word
\* derive_round_key reduces modulo the domain, sb[i][c] the bit of prf_bit.
PrpKeys(N) ==
    [rk : [0 .. KeyPeriod - 1 -> 0 .. Max(N, 1) - 1],
     sb : [0 .. KeyPeriod - 1 -> [0 .. KeyPeriod - 1 -> BOOLEAN]]]

\* ((domain as f64).log2().ceil() as usize) * 6 + 6
num_rounds(domain) == CeilLog2(AsF64(domain)) * 6 + 6

derive_round_key(key, domain, round) ==
    RemW(key.rk[round % KeyPeriod], domain)

prf_bit(key, round, canonical) ==
    key.sb[round % KeyPeriod][canonical % KeyPeriod]

partner_of(key, domain, round_num, x) ==
    RemW(SubW(AddW(derive_round_key(key, domain, round_num), domain),
              RemW(x, domain)),
         domain)

round(key, domain, round_num, x) ==
    LET partner == partner_of(key, domain, round_num, x)
    IN  IF x = PANIC \/ partner = PANIC THEN PANIC
        ELSE IF prf_bit(key, round_num, Max(x, partner)) THEN partner ELSE x

\* rounds from, from + 1, ..., to - 1 applied in that order
RECURSIVE RoundsUp(_, _, _, _, _)
RoundsUp(key, domain, from, to, val) ==
    IF from >= to THEN val
    ELSE CHOOSE out \in {RoundsUp(key, domain, from + 1, to, v) :
                           v \in {round(key, domain, from, val)}} : TRUE

\* rounds to - 1, to - 2, ..., 0 applied in that order
RECURSIVE RoundsDown(_, _, _, _)
RoundsDown(key, domain, to, val) ==
    IF to <= 0 THEN val
    ELSE CHOOSE out \in {RoundsDown(key, domain, to - 1, v) :
                           v \in {round(key, domain, to - 1, val)}} : TRUE

prp_forward(key, domain, x) ==
    RoundsUp(key, domain, 0, num_rounds(domain), x)

prp_inverse(key, domain, y) ==
    RoundsDown(key, domain, num_rounds(domain), y)

\* no PRP call traced
NoPrpCall ==
    [op |-> "none", status |-> "none", x |-> 0, first |-> 0, val |-> 0,
     seq |-> <<>>, rounds |-> 0]

\* ------------------------------------------------------- no sampler built
NoSampler ==
    [kind |-> "none", max_count |-> 0, level_bounds |-> <<>>,
     num_levels |-> 0]

NoCall ==
    [op |-> "none", level |-> 0, count |-> 0, num |-> 0, denom |-> 0,
     prf |-> 0, p_num |-> 0, p_denom |-> 0,
     hit |-> 0, gaussian_result |-> 0, table |-> FALSE,
     use_complement |-> FALSE, n |-> 0, max_n |-> 0, k |-> 0, result |-> 0,
     found |-> 0, iters |-> 0, pmf_index |-> 0, cdf_terms |-> 0]

SamplerIdle == sampler = NoSampler /\ call = NoCall /\ rets = <<>>

\* the threads of the process
Threads == 1 .. MaxThreads

\* a thread outside sample_half
NoThread == [pc |-> "idle", count |-> 0, k |-> 0, seen |-> <<>>,
             n |-> 0, tables |-> <<>>]

\* the process before the first use of CDF_TABLES
TableIdle ==
    /\ lazyState = "uninit" /\ CDF_TABLES = <<>> /\ initRuns = 0
    /\ threads = [t \in Threads |-> NoThread]

\* ---------------------------------------------------------------- SpecPrp
\* No Iprf is built: its state stays at rest.
PmnsIdle ==
    /\ iprfDomain = 0 /\ iprfRange = 0
    /\ memoF = {}
    /\ pc = "idle" /\ arg = 0
    /\ low = 0 /\ high = 0 /\ ball_count = 0 /\ ball_pos = 0 /\ trips = 0
    /\ split = <<>>
    /\ fwds = <<>> /\ runs = <<>> /\ last = <<>>
    /\ prpEvals = 0 /\ probe = <<>>

InitPrp ==
    /\ overflowChecks \in BOOLEAN
    /\ prpDomain \in 1 .. MaxPrpDomain
    /\ prpKey \in PrpKeys(prpDomain)
    /\ prpOutputs = <<>>
    /\ prpTrip = <<>>
    /\ prpCall = NoPrpCall
    /\ PmnsIdle
    /\ SamplerIdle
    /\ TableIdle

\* outputs = (0..domain).map(|x| prp.forward(x))
PrpForwardAll ==
    /\ prpOutputs = <<>>
    /\ prpTrip = <<>>
    /\ prpCall = NoPrpCall
    /\ prpOutputs' = [i \in 1 .. prpDomain |->
                        prp_forward(prpKey, prpDomain, i - 1)]
    /\ UNCHANGED <<overflowChecks, prpDomain, prpKey, prpTrip, prpCall, pmnsVars, samplerVars, tableVars>>

\* y = prp.forward(x); x_recovered = prp.inverse(y)
PrpRoundTrip(x) ==
    /\ prpOutputs = <<>>
    /\ prpTrip = <<>>
    /\ prpCall = NoPrpCall
    /\ LET y == prp_forward(prpKey, prpDomain, x)
       IN  prpTrip' = <<x, y, prp_inverse(prpKey, prpDomain, y)>>
    /\ UNCHANGED <<overflowChecks, prpDomain, prpKey, prpOutputs, prpCall, pmnsVars, samplerVars, tableVars>>

\* round(i, x) and round(i, round(i, x))
RoundTwice(i, x) ==
    /\ prpOutputs = <<>>
    /\ prpTrip = <<>>
    /\ prpCall = NoPrpCall
    /\ LET once == round(prpKey, prpDomain, i, x)
           twice == IF once = PANIC THEN PANIC
                    ELSE round(prpKey, prpDomain, i, once)
       IN  prpCall' = [NoPrpCall EXCEPT !.op = "round", !.x = x,
                          !.status = IF twice = PANIC THEN "panic" ELSE "ok",
                          !.first = once, !.val = twice, !.seq = <<i, i>>,
                          !.rounds = num_rounds(prpDomain)]
    /\ UNCHANGED <<overflowChecks, prpDomain, prpKey, prpOutputs, prpTrip, pmnsVars, samplerVars, tableVars>>

NextPrp ==
    \/ PrpForwardAll
    \/ \E x \in 0 .. prpDomain - 1 : PrpRoundTrip(x)
    \/ \E i \in 0 .. num_rounds(prpDomain) - 1, x \in 0 .. prpDomain - 1 :
         RoundTwice(i, x)

SpecPrp == InitPrp /\ [][NextPrp]_vars

\* ------------------------------------------------- the rounds of a call
\* the domains SwapOrNot::new is given: those the calls are traced on, and
\* the least that `domain as f64` rounds
RoundDomains == (1 .. MaxPrpDomain) \cup {2 ^ F64Bits + 1}

\* the PRP subkeys tried: the swap bit is the same in every round
RoundKeys == {k \in PrpKeys(MaxPrpDomain) : k.sb[0] = k.sb[1]}

\* SwapOrNot::new(key, domain)
SwapOrNotNew(N) ==
    /\ prpDomain = 0
    /\ prpDomain' = N
    /\ prpCall' = [NoPrpCall EXCEPT !.op = "new", !.status = "ok",
                                    !.rounds = num_rounds(N)]
    /\ UNCHANGED <<overflowChecks, prpKey, prpOutputs, prpTrip, pmnsVars, samplerVars, tableVars>>

\* `let mut val = x` of SwapOrNot::forward / SwapOrNot::inverse
PrpBegin(op, x) ==
    /\ prpDomain \in 1 .. MaxPrpDomain
    /\ prpCall.op = "new"
    /\ prpCall' = [prpCall EXCEPT !.op = op, !.status = "running",
                                  !.x = x, !.val = x, !.seq = <<>>]
    /\ UNCHANGED <<overflowChecks, prpDomain, prpKey, prpOutputs, prpTrip, pmnsVars, samplerVars, tableVars>>

\* the round index of the next iteration of `for round in 0..num_rounds`
\* and of `for round in (0..num_rounds).rev()`
next_round(op, rounds, done) ==
    IF op = "forward" THEN done ELSE rounds - 1 - done

\* one iteration: val = self.round(round, val)
PrpRoundStep ==
    /\ prpCall.status = "running"
    /\ Len(prpCall.seq) < prpCall.rounds
    /\ LET i == next_round(prpCall.op, prpCall.rounds, Len(prpCall.seq))
           v == round(prpKey, prpDomain, i, prpCall.val)
       IN  prpCall' = [prpCall EXCEPT
                         !.seq = Append(@, i),
                         !.val = v,
                         !.status = IF v = PANIC THEN "panic" ELSE @]
    /\ UNCHANGED <<overflowChecks, prpDomain, prpKey, prpOutputs, prpTrip, pmnsVars, samplerVars, tableVars>>

\* `val`, returned after the loop
PrpEnd ==
    /\ prpCall.status = "running"
    /\ Len(prpCall.seq) >= prpCall.rounds
    /\ prpCall' = [prpCall EXCEPT !.status = "ok"]
    /\ UNCHANGED <<overflowChecks, prpDomain, prpKey, prpOutputs, prpTrip, pmnsVars, samplerVars, tableVars>>

InitRounds ==
    /\ overflowChecks \in BOOLEAN
    /\ prpDomain = 0
    /\ prpKey \in RoundKeys
    /\ prpOutputs = <<>> /\ prpTrip = <<>> /\ prpCall = NoPrpCall
    /\ PmnsIdle
    /\ SamplerIdle
    /\ TableIdle

NextRounds ==
    \/ \E N \in RoundDomains : SwapOrNotNew(N)
    \/ \E op \in {"forward", "inverse"}, x \in 0 .. prpDomain - 1 :
         PrpBegin(op, x)
    \/ PrpRoundStep
    \/ PrpEnd

SpecRounds == InitRounds /\ [][NextRounds]_vars

\* C4: SwapOrNot::forward restricted to [0, N) is a permutation of [0, N):
\* every output lies in [0, N) and no two distinct inputs share an output.
C4_ForwardIsPermutation ==
    prpOutputs # <<>> =>
        /\ \A i \in 1 .. prpDomain : prpOutputs[i] \in 0 .. prpDomain - 1
        /\ \A i, j \in 1 .. prpDomain :
              i # j => prpOutputs[i] # prpOutputs[j]

\* C5: for every x in [0, N), SwapOrNot::inverse(SwapOrNot::forward(x)) == x.
C5_InverseOfForward ==
    prpTrip # <<>> => prpTrip[3] = prpTrip[1]

\* ------------------------------------------------- binomial_inverse_cdf
NormalThreshold == 100
ZMax == 2

\* The classes of the uniform u = ((w >> 11) + 0.5) * 2^-53 of a node: it is
\* never <= 0.0, and it is 1.0 when the sum rounds up to 2^53.
UClasses == {"mid", "ge1"}

Isqrt(v) == CHOOSE s \in 0 .. v : s * s <= v /\ v < (s + 1) * (s + 1)

\* the exact path without the `n` that follows the loop
exact_inverse_cdf_no_final(n, hit) == hit

\* The exact path: hit is the first k with u <= cum_prob after the term of
\* k has been added (n + 1: the loop ends without one).
exact_inverse_cdf(n, hit) ==
    IF hit = 0 THEN 0
    ELSE IF hit \in 1 .. n THEN hit
    ELSE n

\* mean + z * stddev with z = inv_normal_cdf(u_clamped) in [-ZMax, ZMax];
\* err takes the fractions that the integer mean and stddev leave out.
\* A negative variance (p > 1.0) or p = inf makes result NaN: both
\* comparisons are false and NaN.round() as u64 is 0.
normal_approx_binomial(n, left_bins, total_bins, z, err) ==
    IF total_bins = 0 \/ left_bins > total_bins THEN 0
    ELSE LET mean == (n * left_bins) \div total_bins
             variance == (n * left_bins * (total_bins - left_bins))
                           \div (total_bins * total_bins)
             stddev == Isqrt(variance)
             result == mean + z * stddev + err
         IN  IF result < 0 THEN 0
             ELSE IF result > AsF64(n) THEN n
             ELSE result

binomial_inverse_cdf(n, left_bins, total_bins, u, hit, z, err) ==
    IF u = "le0" THEN 0
    ELSE IF u = "ge1" THEN n
    ELSE IF total_bins # 0 /\ left_bins = 0 THEN 0
    ELSE IF total_bins # 0 /\ left_bins = total_bins THEN n
    ELSE IF n = 0 THEN 0
    ELSE IF n > NormalThreshold
         THEN normal_approx_binomial(n, left_bins, total_bins, z, err)
         ELSE exact_inverse_cdf(n, hit)

\* every value binomial_inverse_cdf can return at a node
CdfReturns(n, left_bins, total_bins, u) ==
    IF n > NormalThreshold
    THEN {binomial_inverse_cdf(n, left_bins, total_bins, u, 0, z, err) :
            z \in -ZMax .. ZMax, err \in -ErrMax .. ErrMax}
    ELSE {binomial_inverse_cdf(n, left_bins, total_bins, u, hit, 0, 0) :
            hit \in 0 .. n + 1}

\* --------------------------------------------------------------- PMNS
\* the iterations counted: one more than any tree over u64 bins is deep
DepthCap == WordBits + 1

\* (low + high) / 2
Mid(lo, hi) ==
    LET sum == AddW(lo, hi) IN IF sum = PANIC THEN PANIC ELSE sum \div 2

\* mid - low + 1
LeftBins(lo, mid) == AddW(SubW(mid, lo), 1)

\* high - low + 1
TotalBins(lo, hi) == AddW(SubW(hi, lo), 1)

\* The left counts a node with c balls can get.  The node's uniform and
\* the sampler are functions of (low, high, n) and of (count, p, uniform):
\* the count drawn before for the node, or any value binomial_inverse_cdf
\* returns for any uniform.
LeftCounts(lo, hi, c, left_bins, total_bins) ==
    IF \E e \in memoF : e[1] = lo /\ e[2] = hi /\ e[3] = c
    THEN {e[4] : e \in {d \in memoF : d[1] = lo /\ d[2] = hi /\ d[3] = c}}
    ELSE UNION {CdfReturns(c, left_bins, total_bins, u) : u \in UClasses}

ForwardBranch_inclusive(lo, hi, mid, count, index, left_count) ==
    IF index <= left_count
    THEN [low |-> lo, high |-> mid, count |-> left_count, pos |-> index]
    ELSE [low |-> AddW(mid, 1), high |-> hi,
          count |-> SubW(count, left_count),
          pos |-> SubW(index, left_count)]

\* the locals after `if ball_index < left_count { .. } else { .. }`
ForwardBranch(lo, hi, mid, count, index, left_count) ==
    IF index < left_count
    THEN [low |-> lo, high |-> mid, count |-> left_count, pos |-> index]
    ELSE [low |-> AddW(mid, 1), high |-> hi,
          count |-> SubW(count, left_count),
          pos |-> SubW(index, left_count)]

\* the locals after `if y <= mid { .. } else { .. }`
InverseBranch(lo, hi, mid, count, start, left_count, y) ==
    IF y <= mid
    THEN [low |-> lo, high |-> mid, count |-> left_count, pos |-> start]
    ELSE [low |-> AddW(mid, 1), high |-> hi,
          count |-> SubW(count, left_count),
          pos |-> AddW(start, left_count)]

Panicked(loc) ==
    loc.low = PANIC \/ loc.count = PANIC \/ loc.pos = PANIC

\* (start..start + count).collect(), then .map(|z| self.prp.inverse(z))
InverseVec(start, count) ==
    LET end == AddW(start, count)
    IN  IF end = PANIC THEN <<"panic", <<>>>>
        ELSE LET len == Max(end - start, 0)
                 v == [i \in 1 .. len |->
                         prp_inverse(prpKey, prpDomain, start + i - 1)]
             IN  IF \E i \in 1 .. len : v[i] = PANIC
                 THEN <<"panic", <<>>>>
                 ELSE <<"ok", v>>

Elems(v) == {v[i] : i \in 1 .. Len(v)}

\* (ball_start..ball_start + ball_count)
PmnsRun(start, count) ==
    IF AddW(start, count) = PANIC THEN <<>> ELSE <<start, count>>

\* the call returns (or unwinds): its locals are dropped
DropLocals ==
    /\ pc' = "idle" /\ arg' = 0
    /\ low' = 0 /\ high' = 0 /\ ball_count' = 0 /\ ball_pos' = 0
    /\ trips' = 0
    /\ split' = <<>>

\* a value returned is kept as the vector <<value>>, a panic as <<>>
ForwardReturns(x, status, value) ==
    /\ fwds' = Append(fwds, <<status, value>>)
    /\ last' = <<"forward", x, status, value>>
    /\ UNCHANGED runs

\* the run [start, start + count) that trace_ball_inverse returns is kept
\* beside the vector as <<start, count>>, <<>> when it does not return
InverseReturns(y, status, vec, run) ==
    /\ runs' = Append(runs, <<status, vec, run>>)
    /\ last' = <<"inverse", y, status, vec>>
    /\ UNCHANGED fwds

\* ---------------------------------------------------------------- Iprf
\* the early return taken only above the bound
out_of_domain_above(v, bound) == v > bound

out_of_domain(v, bound) == v >= bound

\* the arguments tried outside [0, bound)
OutArgs(bound) == {v \in {bound, MaxWord} : v >= bound}

\* An out-of-domain call leaves everything but `last` as it was, so the calls
\* that can follow it are those of the state before it: they are explored
\* from there.
AfterInDomain ==
    IF last = <<>> THEN TRUE
    ELSE last[2] < (IF last[1] = "forward" THEN iprfDomain ELSE iprfRange)

\* Iprf::forward(x), up to the loop of trace_ball
IprfForward(x) ==
    /\ pc = "idle" /\ probe = <<>> /\ AfterInDomain
    /\ out_of_domain(x, iprfDomain) \/ x = Len(fwds)
    /\ IF out_of_domain(x, iprfDomain)
       THEN /\ last' = <<"forward", x, "ok", <<0>>>>
            /\ UNCHANGED <<callVars, memoVars, fwds, runs, prpEvals>>
       ELSE LET permuted == prp_forward(prpKey, prpDomain, x)
                h == SubW(iprfRange, 1)
            IN  /\ prpEvals' = prpEvals + 1
                /\ UNCHANGED memoVars
                /\ IF permuted = PANIC
                   THEN ForwardReturns(x, "panic", <<>>)
                        /\ UNCHANGED callVars
                   ELSE IF iprfRange = 1
                   THEN ForwardReturns(x, "ok", <<0>>)
                        /\ UNCHANGED callVars
                   ELSE IF h = PANIC
                   THEN ForwardReturns(x, "panic", <<>>)
                        /\ UNCHANGED callVars
                   ELSE /\ pc' = "trace_ball" /\ arg' = x
                        /\ low' = 0 /\ high' = h
                        /\ ball_count' = iprfDomain /\ ball_pos' = permuted
                        /\ trips' = 0
                        /\ split' = <<>>
                        /\ UNCHANGED <<fwds, runs, last>>
    /\ UNCHANGED <<instVars, prpOutputs, prpTrip, prpCall, samplerVars, tableVars, probe>>

\* one iteration of `while low < high` in trace_ball
StepTraceBall ==
    /\ pc = "trace_ball"
    /\ low < high
    /\ LET mid == Mid(low, high)
           left_bins == LeftBins(low, mid)
           total_bins == TotalBins(low, high)
       IN  IF mid = PANIC \/ left_bins = PANIC \/ total_bins = PANIC
           THEN /\ ForwardReturns(arg, "panic", <<>>)
                /\ DropLocals
                /\ UNCHANGED memoVars
           ELSE \E left_count \in LeftCounts(low, high, ball_count,
                                             left_bins, total_bins) :
                  LET loc == ForwardBranch(low, high, mid, ball_count,
                                           ball_pos, left_count)
                  IN  /\ memoF' = memoF \cup
                                    {<<low, high, ball_count, left_count>>}
                      /\ IF Panicked(loc)
                         THEN ForwardReturns(arg, "panic", <<>>)
                              /\ DropLocals
                         ELSE /\ low' = loc.low /\ high' = loc.high
                              /\ ball_count' = loc.count
                              /\ ball_pos' = loc.pos
                              /\ trips' = Min(trips + 1, DepthCap)
                              /\ split' = <<ball_count, left_count>>
                              /\ UNCHANGED <<pc, arg, fwds, runs, last>>
    /\ UNCHANGED <<instVars, prpOutputs, prpTrip, prpCall, samplerVars, tableVars, prpEvals, probe>>

\* `low`, returned when the loop of trace_ball ends
ReturnTraceBall ==
    /\ pc = "trace_ball"
    /\ ~(low < high)
    /\ ForwardReturns(arg, "ok", <<low>>)
    /\ DropLocals
    /\ UNCHANGED <<instVars, prpOutputs, prpTrip, prpCall, samplerVars, tableVars, memoVars, prpEvals, probe>>

\* Iprf::inverse(y), up to the loop of trace_ball_inverse
IprfInverse(y) ==
    /\ pc = "idle" /\ probe = <<>> /\ AfterInDomain
    /\ out_of_domain(y, iprfRange)
         \/ (y = Len(runs) /\ Len(fwds) >= iprfDomain)
    /\ IF out_of_domain(y, iprfRange)
       THEN /\ last' = <<"inverse", y, "ok", <<>>>>
            /\ UNCHANGED <<callVars, memoVars, fwds, runs, prpEvals>>
       ELSE LET h == SubW(iprfRange, 1)
                all == InverseVec(0, iprfDomain)
            IN  /\ UNCHANGED memoVars
                /\ IF iprfRange = 1
                   THEN /\ InverseReturns(y, all[1], all[2], <<0, iprfDomain>>)
                        /\ prpEvals' = prpEvals + iprfDomain
                        /\ UNCHANGED callVars
                   ELSE IF h = PANIC
                   THEN /\ InverseReturns(y, "panic", <<>>, <<>>)
                        /\ UNCHANGED <<callVars, prpEvals>>
                   ELSE /\ pc' = "trace_ball_inverse" /\ arg' = y
                        /\ low' = 0 /\ high' = h
                        /\ ball_count' = iprfDomain /\ ball_pos' = 0
                        /\ trips' = 0
                        /\ split' = <<>>
                        /\ UNCHANGED <<fwds, runs, last, prpEvals>>
    /\ UNCHANGED <<instVars, prpOutputs, prpTrip, prpCall, samplerVars, tableVars, probe>>

\* one iteration of `while low < high` in trace_ball_inverse
StepTraceBallInverse ==
    /\ pc = "trace_ball_inverse"
    /\ low < high
    /\ LET mid == Mid(low, high)
           left_bins == LeftBins(low, mid)
           total_bins == TotalBins(low, high)
       IN  IF mid = PANIC \/ left_bins = PANIC \/ total_bins = PANIC
           THEN /\ InverseReturns(arg, "panic", <<>>, <<>>)
                /\ DropLocals
                /\ UNCHANGED memoVars
           ELSE \E left_count \in LeftCounts(low, high, ball_count,
                                             left_bins, total_bins) :
                  LET loc == InverseBranch(low, high, mid, ball_count,
                                           ball_pos, left_count, arg)
                  IN  /\ memoF' = memoF \cup
                                    {<<low, high, ball_count, left_count>>}
                      /\ IF Panicked(loc)
                         THEN InverseReturns(arg, "panic", <<>>, <<>>)
                              /\ DropLocals
                         ELSE /\ low' = loc.low /\ high' = loc.high
                              /\ ball_count' = loc.count
                              /\ ball_pos' = loc.pos
                              /\ trips' = Min(trips + 1, DepthCap)
                              /\ split' = <<ball_count, left_count>>
                              /\ UNCHANGED <<pc, arg, fwds, runs, last>>
    /\ UNCHANGED <<instVars, prpOutputs, prpTrip, prpCall, samplerVars, tableVars, prpEvals, probe>>

\* the run collected and mapped through the PRP when the loop ends
ReturnTraceBallInverse ==
    /\ pc = "trace_ball_inverse"
    /\ ~(low < high)
    /\ LET r == InverseVec(ball_pos, ball_count)
       IN  /\ InverseReturns(arg, r[1], r[2], PmnsRun(ball_pos, ball_count))
           /\ prpEvals' = prpEvals + Len(r[2])
    /\ DropLocals
    /\ UNCHANGED <<instVars, prpOutputs, prpTrip, prpCall, samplerVars, tableVars, memoVars, probe>>

\* the (left_bins, total_bins) pairs of the intervals of the tree over
\* [0, m - 1]
TreeBins ==
    {b \in {<<LeftBins(lo, Mid(lo, hi)), TotalBins(lo, hi)>> :
              lo \in 0 .. iprfRange - 1, hi \in 0 .. iprfRange - 1} :
        b[1] # PANIC /\ b[2] # PANIC}

\* the counts above NormalThreshold tried: the least, and one that
\* `n as f64` rounds up
ProbeCounts == {NormalThreshold + 1, 2 ^ F64Bits + 3}

\* binomial_inverse_cdf at a node whose count takes the normal approximation
CdfProbe ==
    /\ pc = "idle" /\ probe = <<>> /\ fwds = <<>> /\ runs = <<>>
    /\ last = <<>>
    /\ \E n \in ProbeCounts, b \in TreeBins, u \in UClasses :
         \E k \in CdfReturns(n, b[1], b[2], u) :
           probe' = <<n, k>>
    /\ UNCHANGED <<instVars, prpOutputs, prpTrip, prpCall, samplerVars, tableVars, callVars, memoVars, fwds,
                   runs, last, prpEvals>>

\* Iprf::new(key, n, m)
\* (m = 0 counts as the Word bins that m - 1 wraps to)
IprfParams ==
    {q \in (0 .. MaxPrpDomain) \X (0 .. MaxWord) :
        q[1] * (IF q[2] = 0 THEN Word ELSE q[2]) <= MaxParamArea}

\* the PRP subkeys tried: the swap bit is the same in every round
IprfKeys(N) == {k \in PrpKeys(N) : k.sb[0] = k.sb[1]}

InitIprf ==
    /\ overflowChecks \in BOOLEAN
    /\ \E q \in IprfParams :
         /\ iprfDomain = q[1] /\ iprfRange = q[2] /\ prpDomain = q[1]
    /\ prpKey \in IprfKeys(prpDomain)
    /\ prpOutputs = <<>> /\ prpTrip = <<>> /\ prpCall = NoPrpCall
    /\ memoF = {}
    /\ pc = "idle" /\ arg = 0
    /\ low = 0 /\ high = 0 /\ ball_count = 0 /\ ball_pos = 0 /\ trips = 0
    /\ split = <<>>
    /\ fwds = <<>> /\ runs = <<>> /\ last = <<>>
    /\ prpEvals = 0 /\ probe = <<>>
    /\ SamplerIdle
    /\ TableIdle

NextIprf ==
    \/ \E x \in (0 .. iprfDomain - 1) \cup OutArgs(iprfDomain) :
         IprfForward(x)
    \/ StepTraceBall
    \/ ReturnTraceBall
    \/ \E y \in (0 .. iprfRange - 1) \cup OutArgs(iprfRange) :
         IprfInverse(y)
    \/ StepTraceBallInverse
    \/ ReturnTraceBallInverse
    \/ CdfProbe

SpecIprf == InitIprf /\ [][NextIprf]_vars

\* C1: for every Iprf with n >= 1, m >= 1 and every x in [0, n), forward(x)
\* returns a label y and inverse(y) returns a collection that contains x.
C1_InverseContainsPreimage ==
    (iprfDomain >= 1 /\ iprfRange >= 1) =>
        \A i \in 1 .. Len(fwds) :
            /\ fwds[i][1] = "ok"
            /\ \A j \in 1 .. Len(runs) :
                  fwds[i][2] = <<j - 1>> =>
                      /\ runs[j][1] = "ok"
                      /\ (i - 1) \in Elems(runs[j][2])

RECURSIVE SumLen(_, _)
SumLen(rs, k) == IF k = 0 THEN 0 ELSE Len(rs[k][2]) + SumLen(rs, k - 1)

\* C2: for every Iprf with m >= 1, inverse(y) returns for every y in [0, m)
\* and the lengths of the collections returned sum to n exactly.
C2_PreimageCountConservation ==
    iprfRange >= 1 =>
        /\ \A j \in 1 .. Len(runs) : runs[j][1] = "ok"
        /\ Len(runs) = iprfRange => SumLen(runs, Len(runs)) = iprfDomain

\* C3: for every y in [0, m), inverse(y) is exactly the preimage set of y:
\* each element x is below n with forward(x) = y, and each x in [0, n) with
\* forward(x) = y is an element.
C3_InverseIsPreimageSet ==
    \A j \in 1 .. Len(runs) :
        /\ runs[j][1] = "ok"
        /\ \A k \in 1 .. Len(runs[j][2]) :
              LET x == runs[j][2][k]
              IN  /\ x < iprfDomain
                  /\ x + 1 <= Len(fwds)
                  /\ fwds[x + 1] = <<"ok", <<j - 1>>>>
        /\ \A i \in 1 .. Min(Len(fwds), iprfDomain) :
              fwds[i] = <<"ok", <<j - 1>>>> => (i - 1) \in Elems(runs[j][2])

\* C6: at every node a forward or inverse descent visits with ball count c,
\* the sampled left_count is in [0, c] (so count - left_count does not
\* underflow), on the exact path and on the normal approximation.
C6_LeftCountWithinCount ==
    /\ split # <<>> => (0 <= split[2] /\ split[2] <= split[1])
    /\ probe # <<>> => (0 <= probe[2] /\ probe[2] <= probe[1])

\* a descent has split a node's balls between both children
C6_Witness ==
    split # <<>> /\ 0 < split[2] /\ split[2] < split[1]

\* C10: a forward call with x >= n returns 0 and an inverse call with
\* y >= m returns the empty collection, in the step of the call: no PRP is
\* evaluated, no descent is entered and no panic is raised.
C10_OutOfDomain ==
    [][(last' # last /\ last' # <<>>
          /\ last'[2] >= (IF last'[1] = "forward" THEN iprfDomain
                                                  ELSE iprfRange))
       => /\ last'[3] = "ok"
          /\ last'[4] = (IF last'[1] = "forward" THEN <<0>> ELSE <<>>)
          /\ pc = "idle" /\ pc' = "idle"
          /\ prpEvals' = prpEvals
          /\ UNCHANGED <<memoF, fwds, runs>>]_vars

\* out-of-domain calls were made after descents and PRP evaluations
C10_Witness ==
    /\ last # <<>> /\ prpEvals > 0 /\ memoF # {}
    /\ last[2] >= (IF last[1] = "forward" THEN iprfDomain ELSE iprfRange)

\* C11: for every n >= 0 and m >= 0 (n = 0 and m = 0 included) every call
\* forward(x) and inverse(y) returns a value: no call ends in an integer
\* overflow or underflow or in a division by zero.
C11_NoFault ==
    /\ \A i \in 1 .. Len(fwds) : fwds[i][1] = "ok" /\ Len(fwds[i][2]) = 1
    /\ \A j \in 1 .. Len(runs) : runs[j][1] = "ok"
    /\ last # <<>> => last[3] = "ok"

\* C12: with m == 1, forward(x) returns 0 for every x and inverse(0)
\* returns n elements whose set is {0, ..., n - 1}.
C12_SingleBin ==
    iprfRange = 1 =>
        /\ \A i \in 1 .. Len(fwds) : fwds[i] = <<"ok", <<0>>>>
        /\ (last # <<>> /\ last[1] = "forward") =>
              (last[3] = "ok" /\ last[4] = <<0>>)
        /\ \A j \in 1 .. Len(runs) :
              /\ runs[j][1] = "ok"
              /\ Len(runs[j][2]) = iprfDomain
              /\ Elems(runs[j][2]) = 0 .. iprfDomain - 1

\* ------------------------------------------------------- TEE samplers
\* The samplers' u64 has CountBits bits, so that GAUSSIAN_THRESHOLD keeps its
\* value; PrecomputeMaxN is PRECOMPUTE_MAX_N, scaled as the words are.
GAUSSIAN_THRESHOLD == 10
MAX_TREE_DEPTH == 32
ZGaussMax == 8
ToleranceBits == 4

CountMax == 2 ^ CountBits - 1

\* a * b on u64
MulC(a, b) ==
    IF a * b > CountMax
    THEN (IF overflowChecks THEN PANIC ELSE (a * b) % (CountMax + 1))
    ELSE a * b

\* a + b on u64
AddC(a, b) ==
    IF a = PANIC \/ b = PANIC THEN PANIC
    ELSE IF a + b > CountMax
         THEN (IF overflowChecks THEN PANIC ELSE (a + b) % (CountMax + 1))
         ELSE a + b

\* crate::constant_time: masks are 0 or 1
ct_eq_u64(a, b) == IF a = b THEN 1 ELSE 0
ct_le_u64(a, b) == IF a <= b THEN 1 ELSE 0
ct_min_u64(a, b) == IF a <= b THEN a ELSE b
ct_select_u64(mask, a, b) == IF mask = 1 THEN a ELSE b
\* u_le_cdf & k_in_range, without the found latch
And3_unlatched(a, b, c) == IF a = 1 /\ c = 1 THEN 1 ELSE 0

And3(a, b, c) == IF a = 1 /\ b = 1 /\ c = 1 THEN 1 ELSE 0
Or2(a, b) == IF a = 1 \/ b = 1 THEN 1 ELSE 0

\* LeveledBinomialSamplerTee::new: max_balls when `level` is entered
RECURSIVE max_balls_at(_, _)
max_balls_at(n, level) ==
    IF level = 0 THEN n
    ELSE LET sum == AddC(max_balls_at(n, level - 1), 1)
         IN  IF sum = PANIC THEN PANIC ELSE sum \div 2

tree_depth(m) == IF m <= 1 THEN 1 ELSE CeilLog2(m)

level_bounds_of(n, m) ==
    [i \in 1 .. MAX_TREE_DEPTH |->
        IF i <= Min(tree_depth(m), MAX_TREE_DEPTH)
        THEN max_balls_at(n, i - 1) ELSE 0]

\* the samplers constructed
Samplers ==
    {[kind |-> "tee", max_count |-> b, level_bounds |-> <<>>,
      num_levels |-> 0] : b \in 0 .. MaxBound}
    \cup {[kind |-> "leveled", max_count |-> 0,
           level_bounds |-> level_bounds_of(q[1], q[2]),
           num_levels |-> Min(tree_depth(q[2]), MAX_TREE_DEPTH)] :
            q \in (0 .. MaxBound) \X (1 .. MaxRange)}
    \cup {[kind |-> k, max_count |-> b, level_bounds |-> <<>>,
           num_levels |-> 0] :
            k \in {"gaussian", "precomputed"}, b \in 0 .. MaxBound}

\* a count that `count as f64` rounds up
GaussCount == 2 ^ F64Bits + 3

\* the arguments tried
SampleCounts ==
    (0 .. MaxBound + 1)
      \cup (IF sampler.kind = "gaussian" THEN {GaussCount} ELSE {})
      \cup (IF sampler.kind = "precomputed"
            THEN {PrecomputeMaxN, PrecomputeMaxN + 1} ELSE {})

Fractions ==
    {<<0, 1>>, <<1, 0>>, <<2, 2>>, <<3, 2>>, <<1, 2>>, <<2, 3>>}
      \cup (IF sampler.kind = "gaussian" THEN {<<12, 13>>} ELSE {})
      \cup (IF sampler.kind = "precomputed"
            THEN {<<2 ^ (CountBits - 1), 2 ^ (CountBits - 1) + 1>>} ELSE {})

SampleOps ==
    IF sampler.kind = "precomputed" THEN {"sample", "sample_half"}
    ELSE IF sampler.kind = "none" THEN {}
    ELSE {"sample"}

\* sample_half takes no (num, denom)
CallFractions(op) == IF op = "sample_half" THEN {<<0, 0>>} ELSE Fractions

SampleLevels == IF sampler.kind = "leveled" THEN 0 .. MaxLevel ELSE {0}

\* z = inv_norm_cdf_ct(u), and the fractions the integer mean and sigma leave
ZValues ==
    IF sampler.kind = "gaussian" THEN {-ZGaussMax, -1, 0, 1, ZGaussMax}
    ELSE {0}
ErrValues == IF sampler.kind = "gaussian" THEN {-ErrMax, 0, ErrMax} ELSE {0}

\* The first k at which ct_f64_le(u, cdf) is 1 (n + 1: at none).  cdf does
\* not decrease with k and is 1.0 >= u at k = 0 when n = 0.
Hits(n) == IF n = 0 THEN {0} ELSE {0, 1, n, n + 1}

\* prf_output, and u = (prf_output + 0.5) / 2^PrfBits
PrfOutputs ==
    IF sampler.kind = "gaussian" THEN {0} ELSE 0 .. 2 ^ PrfBits - 1

\* n! / (k! (n - k)!)
RECURSIVE Choose(_, _)
Choose(n, k) ==
    IF k = 0 \/ k = n THEN 1
    ELSE Choose(n - 1, k - 1) + Choose(n - 1, k)

\* cdf after iteration k of the loops, times p_denom^n, in exact arithmetic
RECURSIVE CdfTimes(_, _, _, _)
CdfTimes(n, p_num, p_denom, k) ==
    IF k < 0 THEN 0
    ELSE CdfTimes(n, p_num, p_denom, k - 1)
           + (IF k <= n
              THEN Choose(n, k) * p_num ^ k * (p_denom - p_num) ^ (n - k)
              ELSE 0)

\* ct_f64_le(u, cdf) at iteration k, in exact arithmetic
exact_u_le_cdf(prf, n, p_num, p_denom, k) ==
    (2 * prf + 1) * p_denom ^ n
        <= 2 ^ (PrfBits + 1) * CdfTimes(n, p_num, p_denom, k)

\* the first k at which it is 1
exact_hit(n, p_num, p_denom, prf) ==
    CHOOSE k \in 0 .. n :
        /\ exact_u_le_cdf(prf, n, p_num, p_denom, k)
        /\ \A j \in 0 .. k - 1 : ~exact_u_le_cdf(prf, n, p_num, p_denom, j)

\* The floating-point loop is a function of (n, p, u): a call that repeats
\* them meets the first hit of the call before.
HitsOf(c) ==
    IF /\ rets # <<>> /\ rets[1].iters > 0
       /\ rets[1].n = c.n /\ rets[1].table = c.table
       /\ rets[1].p_num = c.p_num /\ rets[1].p_denom = c.p_denom
       /\ rets[1].prf = c.prf
    THEN {rets[1].hit}
    ELSE Hits(c.n) \cup {exact_hit(c.n, c.p_num, c.p_denom, c.prf)}

\* the last index of `for k in 0..=n` (the clamped count)
loop_last_clamped(max_n, n) == n

\* the last index of `for k in 0..=max_n`
loop_last(max_n, n) == max_n

\* LeveledBinomialSamplerTee::sample: max_count of the level
leveled_max_count(level) ==
    IF level < sampler.num_levels
    THEN sampler.level_bounds[level + 1]
    ELSE sampler.level_bounds[sampler.num_levels]

\* ct_f64_lt(GAUSSIAN_THRESHOLD, np) & ct_f64_lt(GAUSSIAN_THRESHOLD, nq)
use_gaussian(count, num, denom) ==
    IF /\ GAUSSIAN_THRESHOLD * denom < AsF64(count) * num
       /\ GAUSSIAN_THRESHOLD * denom < AsF64(count) * (denom - num)
    THEN 1 ELSE 0

\* GaussianBinomialSamplerTee::sample_gaussian_ct, with z in
\* [-ZGaussMax, ZGaussMax] and err the fractions of mu and sigma
sample_gaussian_ct(n, num, denom, z, err) ==
    LET n_f64 == AsF64(n)
        mu == (n_f64 * num) \div denom
        sigma2 == (n_f64 * num * (denom - num)) \div (denom * denom)
        sigma == Isqrt(sigma2)
        x_rounded == mu + sigma * z + err
        x_clamped == Min(Max(x_rounded, 0), n_f64)
    IN  Min(x_clamped, CountMax)

\* the loop's locals with n left unclamped
LogLoop_unclamped(count, max_n, num, denom, gaussian_result) ==
    LET use_complement == 2 * num > denom
    IN  <<"loop", [NoCall EXCEPT
                     !.n = max_n,
                     !.max_n = max_n,
                     !.use_complement = use_complement,
                     !.p_num = IF use_complement THEN denom - num ELSE num,
                     !.p_denom = denom,
                     !.gaussian_result = gaussian_result]>>

\* the locals at the head of the log-space loop (inverse_cdf_ct,
\* sample_exact_ct, inverse_cdf_fallback_ct)
LogLoop(count, max_n, num, denom, gaussian_result) ==
    LET use_complement == 2 * num > denom
    IN  <<"loop", [NoCall EXCEPT
                     !.n = ct_min_u64(count, max_n),
                     !.max_n = max_n,
                     !.use_complement = use_complement,
                     !.p_num = IF use_complement THEN denom - num ELSE num,
                     !.p_denom = denom,
                     !.gaussian_result = gaussian_result]>>

\* the locals at the head of the loop of inverse_cdf_precomputed_ct
TableLoop(count) ==
    <<"loop", [NoCall EXCEPT !.n = count, !.max_n = PrecomputeMaxN,
                             !.p_num = 1, !.p_denom = 2,
                             !.table = TRUE]>>

\* PrecomputedBinomialSamplerTee::sample_half, to its loop
sample_half(count) ==
    IF count <= PrecomputeMaxN
    THEN TableLoop(count)
    ELSE LogLoop(count, sampler.max_count, 1, 2, 0)

\* the edge cases with the ratio tested first
public_edge_case_ratio_first(count, num, denom) ==
    IF num >= denom THEN <<"ret", "ok", count>>
    ELSE IF denom = 0 \/ num = 0 THEN <<"ret", "ok", 0>>
    ELSE <<>>

\* the edge cases at the head of sample (<<>>: none applies)
public_edge_case(count, num, denom) ==
    IF denom = 0 \/ num = 0 THEN <<"ret", "ok", 0>>
    ELSE IF num >= denom THEN <<"ret", "ok", count>>
    ELSE <<>>

\* sample of each sampler, to its loop or to an early return
sample(level, count, num, denom, z, err) ==
    IF public_edge_case(count, num, denom) # <<>>
    THEN public_edge_case(count, num, denom)
    ELSE IF sampler.kind = "tee"
    THEN LogLoop(count, sampler.max_count, num, denom, 0)
    ELSE IF sampler.kind = "leveled"
    THEN LogLoop(count, leveled_max_count(level), num, denom, 0)
    ELSE IF sampler.kind = "gaussian"
    THEN LogLoop(count, sampler.max_count, num, denom,
                 sample_gaussian_ct(count, num, denom, z, err))
    ELSE LET twice == MulC(num, 2)
         IN  IF twice = PANIC THEN <<"ret", "panic", 0>>
             ELSE IF twice = denom /\ count <= PrecomputeMaxN
             THEN sample_half(count)
             ELSE LogLoop(count, sampler.max_count, num, denom, 0)

\* the iteration bound of the sampler (at the level)
sampler_bound(level) ==
    IF sampler.kind = "leveled" THEN leveled_max_count(level)
    ELSE sampler.max_count

\* ct_select_u64(found, result, n), the value of the inverse-CDF function
inverse_cdf_return(c) == ct_select_u64(c.found, c.result, c.n)

\* a return, with the arguments and the loop's locals of the call
Returned(c, status, value) ==
    [kind |-> sampler.kind, bound |-> sampler_bound(c.level),
     op |-> c.op, level |-> c.level, count |-> c.count, num |-> c.num,
     denom |-> c.denom, prf |-> c.prf, n |-> c.n, max_n |-> c.max_n,
     table |-> c.table, p_num |-> c.p_num, p_denom |-> c.p_denom,
     hit |-> c.hit, status |-> status, value |-> value, iters |-> c.iters,
     inverse_cdf |-> inverse_cdf_return(c)]

\* A later call repeats the first with another count and prf_output.
Repeats(op, level, num, denom) ==
    IF rets = <<>> THEN TRUE
    ELSE /\ Len(rets) < MaxCalls
         /\ rets[1].op = op /\ rets[1].level = level
         /\ rets[1].num = num /\ rets[1].denom = denom

\* a sample / sample_half call, to the loop or to an early return
EnterSample(op, level, count, num, denom, prf, z, err) ==
    /\ sampler.kind # "none" /\ call = NoCall
    /\ LET e == IF op = "sample_half" THEN sample_half(count)
                ELSE sample(level, count, num, denom, z, err)
           c == [(IF e[1] = "ret" THEN NoCall ELSE e[2]) EXCEPT
                    !.op = op, !.level = level, !.count = count,
                    !.num = num, !.denom = denom, !.prf = prf]
       IN  IF e[1] = "ret"
           THEN /\ rets' = Append(rets, Returned(c, e[2], e[3]))
                /\ UNCHANGED call
           ELSE /\ \E hit \in HitsOf(c) : call' = [c EXCEPT !.hit = hit]
                /\ UNCHANGED rets
    /\ UNCHANGED <<sampler, overflowChecks, prpVars, pmnsVars, tableVars>>

\* a call of the sampler under test
SampleCall(op, level, count, num, denom, prf, z, err) ==
    /\ Repeats(op, level, num, denom)
    /\ EnterSample(op, level, count, num, denom, prf, z, err)

\* one iteration of the fixed-bound loop
\* The accumulators of the log-space loops are kept by their content:
\* log_pmf is the logarithm of the term of index pmf_index, cdf the sum of
\* the first cdf_terms terms.  inverse_cdf_precomputed_ct has neither.
cdf_after_unmasked(k_in_range, terms) == terms + 1
\* cdf += ct_select_f64(k_in_range, pmf, 0.0)
cdf_after(k_in_range, terms) == ct_select_u64(k_in_range, terms + 1, terms)

LoopIteration ==
    /\ call # NoCall
    /\ call.k <= loop_last(call.max_n, call.n)
    /\ LET k_in_range == ct_le_u64(call.k, call.n)
           pmf_index == IF call.table THEN call.pmf_index
                        ELSE ct_select_u64(k_in_range, call.k, call.pmf_index)
           cdf_terms == IF call.table THEN call.cdf_terms
                        ELSE cdf_after(k_in_range, call.cdf_terms)
           u_le_cdf == IF call.table
                       THEN (IF call.k >= call.hit THEN 1 ELSE 0)
                       ELSE (IF cdf_terms > call.hit THEN 1 ELSE 0)
           is_new_result == And3(u_le_cdf, 1 - call.found, k_in_range)
       IN  call' = [call EXCEPT
                      !.pmf_index = pmf_index,
                      !.cdf_terms = cdf_terms,
                      !.result = ct_select_u64(is_new_result, call.k, @),
                      !.found = Or2(@, is_new_result),
                      !.k = @ + 1,
                      !.iters = @ + 1]
    /\ UNCHANGED <<sampler, rets, overflowChecks, prpVars, pmnsVars, tableVars>>

\* the value returned after the loop
sample_result ==
    LET k == inverse_cdf_return(call)
    IN  IF sampler.kind \in {"tee", "leveled"}
        THEN ct_select_u64(ct_eq_u64(call.count, 0), 0,
                           IF call.use_complement THEN call.count - k ELSE k)
        ELSE IF sampler.kind = "gaussian"
        THEN ct_select_u64(use_gaussian(call.count, call.num, call.denom),
                           call.gaussian_result,
                           IF call.use_complement THEN call.n - k ELSE k)
        ELSE IF call.table THEN k
        ELSE IF call.use_complement THEN call.n - k ELSE k

\* the loop ends and the call returns
LoopExit ==
    /\ call # NoCall
    /\ ~(call.k <= loop_last(call.max_n, call.n))
    /\ rets' = Append(rets, Returned(call, "ok", sample_result))
    /\ call' = NoCall
    /\ UNCHANGED <<sampler, overflowChecks, prpVars, pmnsVars, tableVars>>

InitSampler ==
    /\ overflowChecks \in BOOLEAN
    /\ sampler \in Samplers
    /\ call = NoCall /\ rets = <<>>
    /\ prpDomain = 1 /\ prpKey \in {k \in PrpKeys(1) : \A i, j \in 0 .. KeyPeriod - 1 : ~k.sb[i][j]}
    /\ prpOutputs = <<>> /\ prpTrip = <<>> /\ prpCall = NoPrpCall
    /\ PmnsIdle
    /\ TableIdle

NextSampler ==
    \/ \E op \in SampleOps, level \in SampleLevels, count \in SampleCounts,
          prf \in PrfOutputs, z \in ZValues, err \in ErrValues :
         \E f \in CallFractions(op) :
            SampleCall(op, level, count, f[1], f[2], prf, z, err)
    \/ LoopIteration
    \/ LoopExit

SpecSampler == InitSampler /\ [][NextSampler]_vars

\* --------------------------------------- LeveledBinomialSamplerTee::new
\* the domain and range sizes tried, up to u64::MAX
LeveledParams ==
    ((0 .. MaxBound + 1) \cup {CountMax - 1, CountMax})
        \X ((0 .. MaxRange + 1) \cup {CountMax})

\* LeveledBinomialSamplerTee::new(n, m)
LeveledNew(n, m) ==
    /\ sampler = NoSampler /\ rets = <<>>
    /\ LET bounds == level_bounds_of(n, m)
           depth == Min(tree_depth(m), MAX_TREE_DEPTH)
           panicked == \E i \in 1 .. depth : AddC(bounds[i], 1) = PANIC
       IN  IF panicked
           THEN /\ rets' = <<[op |-> "new", n |-> n, m |-> m, level |-> 0,
                              status |-> "panic", value |-> 0]>>
                /\ UNCHANGED sampler
           ELSE /\ rets' = <<[op |-> "new", n |-> n, m |-> m, level |-> 0,
                              status |-> "ok", value |-> 0]>>
                /\ sampler' = [kind |-> "leveled", max_count |-> 0,
                               level_bounds |-> bounds, num_levels |-> depth]
    /\ UNCHANGED <<call, overflowChecks, prpVars, pmnsVars, tableVars>>

\* LeveledBinomialSamplerTee::level_bound(level)
level_bound(level) ==
    IF level < sampler.num_levels THEN sampler.level_bounds[level + 1]
    ELSE 0

\* a call of level_bound on the sampler constructed
LevelBound(level) ==
    /\ sampler.kind = "leveled" /\ Len(rets) = 1
    /\ rets' = Append(rets, [op |-> "level_bound", n |-> rets[1].n,
                             m |-> rets[1].m, level |-> level,
                             status |-> "ok", value |-> level_bound(level)])
    /\ UNCHANGED <<sampler, call, overflowChecks, prpVars, pmnsVars, tableVars>>

InitLeveled ==
    /\ overflowChecks \in BOOLEAN
    /\ sampler = NoSampler /\ call = NoCall /\ rets = <<>>
    /\ prpDomain = 1 /\ prpKey \in {k \in PrpKeys(1) : \A i, j \in 0 .. KeyPeriod - 1 : ~k.sb[i][j]}
    /\ prpOutputs = <<>> /\ prpTrip = <<>> /\ prpCall = NoPrpCall
    /\ PmnsIdle
    /\ TableIdle

NextLeveled ==
    \/ \E q \in LeveledParams : LeveledNew(q[1], q[2])
    \/ \E level \in 0 .. CountBits + 1 : LevelBound(level)

SpecLeveled == InitLeveled /\ [][NextLeveled]_vars

\* ------------------------------------------------------------ CDF_TABLES
\* An f64 of the table is held as the integer value * 2^FracBits; every
\* operation rounds to F64Bits significant bits, ties to even.
FracBits == PrecomputeMaxN + F64Bits
One == 2 ^ FracBits

\* a / b rounded to the nearest f64
RoundRatio(a, b) ==
    LET q == a \div b
        unit == IF q < 2 ^ F64Bits THEN 1 ELSE 2 ^ (BitLen(q) - F64Bits)
        d == b * unit
        mant == a \div d
        r == a % d
        up == 2 * r > d \/ (2 * r = d /\ mant % 2 = 1)
    IN  (IF up THEN mant + 1 ELSE mant) * unit

F64Add(x, y) == RoundRatio(x + y, 1)
F64Mul(x, y) == RoundRatio(x * y, One)
F64Div(x, y) == RoundRatio(x * One, y)

\* v as f64, for an integer v
FromInt(v) == AsF64(v) * One

powi_half_short(n) == One \div 2 ^ (n - 1)
\* 0.5f64.powi(n)
powi_half(n) == One \div 2 ^ n

\* cdf and binom_coeff of row n at `tables[n][k] = cdf`
RECURSIVE row_locals(_, _)
row_locals(n, k) ==
    LET scale == powi_half(n)
        binom_coeff ==
            IF k = 0 THEN One
            ELSE F64Mul(row_locals(n, k - 1).binom_coeff,
                        F64Div(FromInt(n - (k - 1)), FromInt(k)))
        cdf == IF k = 0 THEN 0 ELSE row_locals(n, k - 1).cdf
        pmf == F64Mul(binom_coeff, scale)
    IN  [cdf |-> F64Add(cdf, pmf), binom_coeff |-> binom_coeff]

\* vec![[0.0f64; PRECOMPUTE_MAX_N + 1]; PRECOMPUTE_MAX_N + 1]
zero_tables == [n \in 0 .. PrecomputeMaxN |-> [k \in 0 .. PrecomputeMaxN |-> 0]]

\* row n after the iteration n of `for n in 0..=PRECOMPUTE_MAX_N`
table_row(row, n) ==
    [k \in 0 .. PrecomputeMaxN |->
        IF n = 0 THEN (IF k = 0 THEN One ELSE row[k])
        ELSE IF k <= n THEN row_locals(n, k).cdf
        ELSE One]

\* the table the initialiser returns
built_tables == [n \in 0 .. PrecomputeMaxN |-> table_row(zero_tables[n], n)]

init_done_early(n) == n >= 1
\* the end of `for n in 0..=PRECOMPUTE_MAX_N`
init_done(n) == n = PrecomputeMaxN + 1

\* Lazy: the initialiser is entered by the thread that finds the cell empty
lazy_may_enter(state) == state = "uninit"

\* sample_half(count, prf_output) up to the choice of the path
SampleHalf(t, count) ==
    /\ threads[t].pc = "idle"
    /\ threads' = [threads EXCEPT ![t] =
           [NoThread EXCEPT !.count = count,
               !.pc = IF count <= PrecomputeMaxN THEN "deref" ELSE "fallback"]]
    /\ UNCHANGED <<lazyState, CDF_TABLES, initRuns>>
    /\ UNCHANGED <<overflowChecks, prpVars, pmnsVars, samplerVars>>

\* `&CDF_TABLES[n_idx]`: the first dereference runs the initialiser, a
\* dereference during the initialisation waits for its end
Deref(t) ==
    /\ threads[t].pc = "deref"
    /\ IF lazyState = "complete"
       THEN /\ threads' = [threads EXCEPT ![t].pc = "scan", ![t].k = 0]
            /\ UNCHANGED <<lazyState, initRuns>>
       ELSE /\ lazy_may_enter(lazyState)
            /\ lazyState' = "running"
            /\ initRuns' = initRuns + 1
            /\ threads' = [threads EXCEPT ![t].pc = "init", ![t].n = 0,
                                          ![t].tables = zero_tables]
    /\ UNCHANGED CDF_TABLES
    /\ UNCHANGED <<overflowChecks, prpVars, pmnsVars, samplerVars>>

\* one iteration of `for n in 0..=PRECOMPUTE_MAX_N` of the initialiser
InitRow(t) ==
    /\ threads[t].pc = "init" /\ ~init_done(threads[t].n)
    /\ LET n == threads[t].n
       IN  threads' = [threads EXCEPT ![t].n = n + 1,
               ![t].tables = [@ EXCEPT ![n] = table_row(@, n)]]
    /\ UNCHANGED <<lazyState, CDF_TABLES, initRuns>>
    /\ UNCHANGED <<overflowChecks, prpVars, pmnsVars, samplerVars>>

\* `tables.try_into().unwrap()`: the initialiser returns, the Lazy stores
\* the table and the dereference yields it
Publish(t) ==
    /\ threads[t].pc = "init" /\ init_done(threads[t].n)
    /\ CDF_TABLES' = threads[t].tables
    /\ lazyState' = "complete"
    /\ threads' = [threads EXCEPT ![t].pc = "scan", ![t].k = 0,
                                  ![t].n = 0, ![t].tables = <<>>]
    /\ UNCHANGED initRuns
    /\ UNCHANGED <<overflowChecks, prpVars, pmnsVars, samplerVars>>

\* one iteration of the scan of inverse_cdf_precomputed_ct: `table[k]`
ScanStep(t) ==
    /\ threads[t].pc = "scan" /\ threads[t].k <= PrecomputeMaxN
    /\ LET n_idx == Min(threads[t].count, PrecomputeMaxN)
           cdf_k == CDF_TABLES[n_idx][threads[t].k]
       IN  threads' = [threads EXCEPT ![t].k = @ + 1,
                                     ![t].seen = Append(@, cdf_k)]
    /\ UNCHANGED <<lazyState, CDF_TABLES, initRuns>>
    /\ UNCHANGED <<overflowChecks, prpVars, pmnsVars, samplerVars>>

\* sample_half returns
ThreadReturn(t) ==
    /\ \/ threads[t].pc = "scan" /\ threads[t].k = PrecomputeMaxN + 1
       \/ threads[t].pc = "fallback"
    /\ threads' = [threads EXCEPT ![t] = NoThread]
    /\ UNCHANGED <<lazyState, CDF_TABLES, initRuns>>
    /\ UNCHANGED <<overflowChecks, prpVars, pmnsVars, samplerVars>>

InitTable ==
    /\ overflowChecks \in BOOLEAN
    /\ prpDomain = 1 /\ prpKey \in {k \in PrpKeys(1) : \A i, j \in 0 .. KeyPeriod - 1 : ~k.sb[i][j]}
    /\ prpOutputs = <<>> /\ prpTrip = <<>> /\ prpCall = NoPrpCall
    /\ PmnsIdle
    /\ SamplerIdle
    /\ TableIdle

NextTable ==
    \/ \E t \in Threads, count \in 0 .. PrecomputeMaxN + 1 : SampleHalf(t, count)
    \/ \E t \in Threads : Deref(t)
    \/ \E t \in Threads : InitRow(t)
    \/ \E t \in Threads : Publish(t)
    \/ \E t \in Threads : ScanStep(t)
    \/ \E t \in Threads : ThreadReturn(t)

SpecTable == InitTable /\ [][NextTable]_vars

\* ------------------------------------------------ two sampler instances
\* One call on a first sampler, then the same arguments on a second one, as
\* test_sample_matches_global_sampler, test_smaller_bound_is_faster and
\* test_matches_exact_for_small_n do.
AgreeSamplers ==
    {s \in Samplers : s.kind \in {"tee", "leveled", "precomputed"}}

\* the second sampler is constructed
Construct ==
    /\ call = NoCall /\ Len(rets) = 1
    /\ sampler' \in AgreeSamplers \ {sampler}
    /\ UNCHANGED <<call, rets, overflowChecks, prpVars, pmnsVars, tableVars>>

\* sample_half(count, prf) stands for sample(count, 1, 2, prf)
SameFraction(op, num, denom, r) ==
    \/ op = r.op /\ num = r.num /\ denom = r.denom
    \/ op = "sample" /\ r.op = "sample_half" /\ num = 1 /\ denom = 2
    \/ op = "sample_half" /\ r.op = "sample" /\ r.num = 1 /\ r.denom = 2

\* the second call takes the arguments of the first
Mirrors(op, level, count, num, denom, prf) ==
    IF rets = <<>> THEN TRUE
    ELSE /\ Len(rets) = 1
         /\ (rets[1].kind # sampler.kind
               \/ rets[1].bound # sampler_bound(level))
         /\ level = rets[1].level /\ count = rets[1].count
         /\ prf = rets[1].prf
         /\ SameFraction(op, num, denom, rets[1])

AgreeCall(op, level, count, num, denom, prf) ==
    /\ Mirrors(op, level, count, num, denom, prf)
    /\ EnterSample(op, level, count, num, denom, prf, 0, 0)

InitAgree ==
    /\ overflowChecks \in BOOLEAN
    /\ sampler \in AgreeSamplers
    /\ call = NoCall /\ rets = <<>>
    /\ prpDomain = 1 /\ prpKey \in {k \in PrpKeys(1) : \A i, j \in 0 .. KeyPeriod - 1 : ~k.sb[i][j]}
    /\ prpOutputs = <<>> /\ prpTrip = <<>> /\ prpCall = NoPrpCall
    /\ PmnsIdle
    /\ TableIdle

NextAgree ==
    \/ \E op \in SampleOps, count \in SampleCounts, prf \in PrfOutputs :
         \E f \in CallFractions(op) :
            AgreeCall(op, 0, count, f[1], f[2], prf)
    \/ LoopIteration
    \/ LoopExit
    \/ Construct

SpecAgree == InitAgree /\ [][NextAgree]_vars

\* C7: every value a TEE sampler returns, for every constructor bound and
\* every (count, num, denom, prf_output), is in [0, count]; the call returns.
C7_SamplerRange ==
    \A i \in 1 .. Len(rets) :
        /\ rets[i].status = "ok"
        /\ 0 <= rets[i].value /\ rets[i].value <= rets[i].count

C9_PrecomputedTripCount ==
    (sampler.kind = "precomputed" /\ Len(rets) = 2) =>
        rets[1].iters = rets[2].iters

\* C13: sample of each of the four samplers returns 0 if denom == 0 or
\* num == 0 and otherwise count if num >= denom, for every count and
\* prf_output, before any loop iteration.
C13_PublicEdgeCases ==
    \A i \in 1 .. Len(rets) :
        rets[i].op = "sample" =>
            /\ (rets[i].denom = 0 \/ rets[i].num = 0) =>
                  /\ rets[i].status = "ok" /\ rets[i].value = 0
                  /\ rets[i].iters = 0
            /\ (rets[i].denom # 0 /\ rets[i].num # 0
                  /\ rets[i].num >= rets[i].denom) =>
                  /\ rets[i].status = "ok" /\ rets[i].value = rets[i].count
                  /\ rets[i].iters = 0

\* a sampler has returned twice for num > denom > 0, with a count above its
\* iteration bound
C13_Witness ==
    /\ Len(rets) = 2 /\ rets[1].op = "sample"
    /\ rets[1].num > rets[1].denom /\ rets[1].denom > 0
    /\ rets[1].count > sampler.max_count /\ rets[1].value = rets[1].count
    /\ rets[2].count # rets[1].count /\ rets[2].value = rets[2].count

\* the smallest k with P(X <= k) >= u for X ~ Binomial(count, num/denom) and
\* u = (prf_output + 0.5) / 2^PrfBits
Quantile(count, num, denom, prf) ==
    CHOOSE k \in 0 .. count :
        /\ exact_u_le_cdf(prf, count, num, denom, k)
        /\ \A j \in 0 .. k - 1 : ~exact_u_le_cdf(prf, count, num, denom, j)

\* the returns of BinomialSamplerTee::sample with count <= max_count and
\* 0 < num < denom whose float comparisons came out as in exact arithmetic
ExactTeeReturns ==
    {i \in 1 .. Len(rets) :
        /\ sampler.kind = "tee" /\ rets[i].status = "ok"
        /\ rets[i].count <= sampler.max_count
        /\ 0 < rets[i].num /\ rets[i].num < rets[i].denom
        /\ rets[i].hit = exact_hit(rets[i].n, rets[i].p_num,
                                   rets[i].p_denom, rets[i].prf)}

\* C14 (as claimed): for count <= max_count and 0 < num < denom, p <= 1/2 or
\* p > 1/2, BinomialSamplerTee::sample returns the smallest k with
\* P(X <= k) >= u, X ~ Binomial(count, num/denom).
C14_InverseCdf ==
    \A i \in ExactTeeReturns :
        rets[i].value = Quantile(rets[i].count, rets[i].num, rets[i].denom,
                                 rets[i].prf)

\* C14 (amended): for p <= 1/2 it returns that quantile; for p > 1/2 it
\* returns count - k' with k' the quantile of Binomial(count, 1 - p) at the
\* same u.
C14_InverseCdfBySymmetry ==
    \A i \in ExactTeeReturns :
        rets[i].value =
            IF 2 * rets[i].num > rets[i].denom
            THEN rets[i].count
                   - Quantile(rets[i].count, rets[i].denom - rets[i].num,
                              rets[i].denom, rets[i].prf)
            ELSE Quantile(rets[i].count, rets[i].num, rets[i].denom,
                          rets[i].prf)

\* returns on both sides of p = 1/2 with a result strictly inside [0, count]
C14_Witness ==
    \E i \in ExactTeeReturns :
        /\ 2 * rets[i].num > rets[i].denom
        /\ 0 < rets[i].value /\ rets[i].value < rets[i].count

\* the two returns come from log-space samplers (baseline or leveled at
\* level 0) whose bounds cover the count of the same arguments
CoveredPair ==
    /\ Len(rets) = 2
    /\ \A i \in {1, 2} :
          /\ rets[i].kind \in {"tee", "leveled"} /\ rets[i].op = "sample"
          /\ rets[i].level = 0 /\ rets[i].count <= rets[i].bound
    /\ rets[1].count = rets[2].count /\ rets[1].prf = rets[2].prf
    /\ rets[1].num = rets[2].num /\ rets[1].denom = rets[2].denom

\* C15: for every (count, num, denom, prf_output) with count within both
\* bounds, LeveledBinomialSamplerTee::sample at level 0 and
\* BinomialSamplerTee::sample return the same value, and so do two
\* BinomialSamplerTee instances with different max_count.
C15_BoundIndependence ==
    CoveredPair =>
        /\ rets[1].status = "ok" /\ rets[2].status = "ok"
        /\ rets[1].value = rets[2].value

\* a leveled and a baseline sampler with different bounds have run their
\* loops for p > 1/2 and returned a nonzero value
C15_Witness ==
    /\ CoveredPair
    /\ rets[1].kind = "leveled" /\ rets[2].kind = "tee"
    /\ rets[1].bound # rets[2].bound
    /\ rets[1].num < rets[1].denom /\ 2 * rets[1].num > rets[1].denom
    /\ rets[1].iters # rets[2].iters
    /\ 0 < rets[1].value

\* C16: for every n in [0, PRECOMPUTE_MAX_N] and every prf_output,
\* PrecomputedBinomialSamplerTee::sample_half(n, prf_output) equals the
\* log-space exact sampler's sample(n, 1, 2, prf_output).
C16_PrecomputedAgreement ==
    (/\ Len(rets) = 2
     /\ rets[1].kind = "precomputed" /\ rets[1].op = "sample_half"
     /\ rets[1].count <= PrecomputeMaxN
     /\ rets[2].kind = "tee" /\ rets[2].op = "sample"
     /\ rets[2].num = 1 /\ rets[2].denom = 2
     /\ rets[2].count = rets[1].count /\ rets[2].prf = rets[1].prf
     /\ rets[2].count <= rets[2].bound)
        => rets[1].value = rets[2].value

\* ceil(a / b)
CeilDiv(a, b) == (a + b - 1) \div b

\* D = min(max(1, ceil(log2 m)), MAX_TREE_DEPTH)
LevelCount(m) == Min(Max(1, CeilLog2(m)), MAX_TREE_DEPTH)

\* C20: LeveledBinomialSamplerTee::new(n, m) returns a sampler whose
\* level_bound(L) is ceil(n / 2^L) for every L in [0, D).
C20_LevelBounds ==
    \A i \in 1 .. Len(rets) :
        /\ rets[i].op = "new" => rets[i].status = "ok"
        /\ (rets[i].op = "level_bound" /\ rets[i].level < LevelCount(rets[i].m))
              => rets[i].value = CeilDiv(rets[i].n, 2 ^ rets[i].level)

\* the tolerance of |T[n][n] - 1|
TableTolerance == One \div 2 ^ ToleranceBits

\* C17: for every n in [1, PRECOMPUTE_MAX_N], row n of the table is a valid
\* CDF: T[n][0] > 0, T[n][k] >= T[n][k-1] for k in [1, n], and T[n][n] is
\* 1 within the tolerance.
C17_TableValid ==
    lazyState = "complete" =>
        \A n \in 1 .. PrecomputeMaxN :
            /\ CDF_TABLES[n][0] > 0
            /\ \A k \in 1 .. n : CDF_TABLES[n][k] >= CDF_TABLES[n][k - 1]
            /\ CDF_TABLES[n][n] - One < TableTolerance
            /\ One - CDF_TABLES[n][n] < TableTolerance

\* the table is stored and a thread has read the whole of its last row
C17_Witness ==
    /\ lazyState = "complete"
    /\ \E t \in Threads :
          /\ threads[t].pc = "scan" /\ threads[t].count = PrecomputeMaxN
          /\ Len(threads[t].seen) = PrecomputeMaxN + 1
          /\ threads[t].seen[1] > 0
          /\ threads[t].seen[PrecomputeMaxN + 1] = CDF_TABLES[PrecomputeMaxN][PrecomputeMaxN]

\* C18: for every n and k in [0, PRECOMPUTE_MAX_N] with k > n, T[n][k] is
\* 1.0, row n = 0 included.
C18_TailIsOne ==
    lazyState = "complete" =>
        \A n \in 0 .. PrecomputeMaxN, k \in 0 .. PrecomputeMaxN :
            k > n => CDF_TABLES[n][k] = One

\* C19: under every interleaving of threads that call sample_half, the
\* initialiser of the table runs at most once, every value a thread reads
\* is a value of the finished table, and once the table is stored neither
\* the cell nor the contents change.
C19_InitOnce ==
    /\ [](/\ initRuns <= 1
          /\ \A t \in Threads :
                threads[t].pc = "scan" =>
                    /\ lazyState = "complete"
                    /\ \A i \in 1 .. Len(threads[t].seen) :
                          threads[t].seen[i] =
                              built_tables[Min(threads[t].count, PrecomputeMaxN)][i - 1]
          /\ lazyState = "complete" => CDF_TABLES = built_tables)
    /\ [][lazyState = "complete" =>
             (lazyState' = "complete" /\ CDF_TABLES' = CDF_TABLES)]_vars

\* one thread is inside the initialiser with some rows built, another
\* has called sample_half and is at the dereference
C19_Witness ==
    /\ lazyState = "running"
    /\ \E t, u \in Threads :
          /\ t # u
          /\ threads[t].pc = "init" /\ threads[t].n \in 1 .. PrecomputeMaxN
          /\ threads[u].pc = "deref"

\* C21: in the PMNS tree over n balls the ball count of a node at depth L
\* is at most ceil(n / 2^L), whatever the sampler returned above it, so the
\* leveled sampler's clamp min(count, level_bounds[L]) leaves count as it is.
C21_LevelBoundHolds ==
    (pc \in {"trace_ball", "trace_ball_inverse"} /\ trips < DepthCap) =>
        /\ ball_count <= CeilDiv(iprfDomain, 2 ^ trips)
        /\ ct_min_u64(ball_count, CeilDiv(iprfDomain, 2 ^ trips)) = ball_count

\* C22: for every m >= 1 the forward and the inverse descent end with
\* low == high after at most ceil(log2 m) iterations, and every iteration
\* strictly shrinks the interval [low, high].
C22_DescentTerminates ==
    /\ [](iprfRange >= 1 => trips <= CeilLog2(iprfRange))
    /\ [][(iprfRange >= 1 /\ pc # "idle" /\ pc' = pc)
             => high' - low' < high - low]_vars
    /\ [][(iprfRange >= 1 /\ pc # "idle" /\ pc' = "idle")
             => low = high]_vars

\* C28: at every iteration of the forward descent started with x' < n and
\* m >= 2: 0 <= low <= high <= m - 1 and ball_index < ball_count <= n, so
\* that ball_index -= left_count does not underflow, and a label returned
\* lies in [0, m).
C28_ForwardInvariant ==
    LET started == prp_forward(prpKey, prpDomain, arg)
    IN  /\ (/\ pc = "trace_ball" /\ low < high /\ iprfRange >= 2
            /\ started # PANIC /\ started < iprfDomain)
              => /\ 0 <= low /\ low <= high /\ high <= iprfRange - 1
                 /\ 0 <= ball_pos /\ ball_pos < ball_count
                 /\ ball_count <= iprfDomain
        /\ (/\ last # <<>> /\ last[1] = "forward" /\ last[2] < iprfDomain
            /\ iprfRange >= 2 /\ last[3] = "ok")
              => last[4][1] \in 0 .. iprfRange - 1

\* a ball has gone right past a non-empty left child and its descent
\* goes on
C28_Witness ==
    /\ pc = "trace_ball" /\ low < high /\ low > 0
    /\ iprfDomain >= 2 /\ split # <<>> /\ split[2] > 0

\* C29: the runs trace_ball_inverse returns for the bins 0, 1, ..., m - 1
\* are pairwise disjoint, in bin order (each ends where the next starts)
\* and together cover [0, n).
C29_RunsPartition ==
    iprfRange >= 1 =>
        /\ \A j \in 1 .. Len(runs) :
              /\ runs[j][3] # <<>>
              /\ runs[j][3][1] =
                    (IF j = 1 THEN 0 ELSE runs[j - 1][3][1] + runs[j - 1][3][2])
        /\ Len(runs) = iprfRange =>
              runs[iprfRange][3][1] + runs[iprfRange][3][2] = iprfDomain

\* C23: the uniform and the split probability of a node depend only on
\* (low, high), n and the key, so every descent that visits a node, forward
\* or inverse, whatever its ball or bin, obtains the same left_count there.
C23_SameSplitAtNode ==
    \A e, d \in memoF : (e[1] = d[1] /\ e[2] = d[2]) => e = d

\* C27: for every y in [0, m), with [start, start + count) the PMNS run of
\* bin y, inverse(y) has length count, its i-th element is
\* PRP.inverse(start + i) and no element occurs twice.
C27_InverseMapsRun ==
    iprfRange >= 1 =>
        \A j \in 1 .. Len(runs) :
            runs[j][3] # <<>> =>
                LET start == runs[j][3][1]
                    count == runs[j][3][2]
                    vec == runs[j][2]
                IN  /\ runs[j][1] = "ok"
                    /\ Len(vec) = count
                    /\ \A i \in 1 .. Len(vec) :
                          vec[i] = prp_inverse(prpKey, prpDomain, start + i - 1)
                    /\ \A i, k \in 1 .. Len(vec) : i # k => vec[i] # vec[k]

\* C25: every round of Swap-or-Not is an involution on [0, N): for every
\* round index i, every N >= 1 and every x in [0, N), round(i, x) is in
\* [0, N) and round(i, round(i, x)) == x.
C25_RoundIsInvolution ==
    prpCall.op = "round" =>
        /\ prpCall.status = "ok"
        /\ prpCall.first \in 0 .. prpDomain - 1
        /\ prpCall.val = prpCall.x

\* C26: SwapOrNot::forward applies exactly R = 6 * ceil(log2 N) + 6 rounds
\* with the round indices 0, 1, ..., R - 1 in this order, and
\* SwapOrNot::inverse the same R rounds in the order R - 1, ..., 1, 0.
C26_RoundOrder ==
    LET R == 6 * CeilLog2(prpDomain) + 6
    IN  /\ prpCall.op = "new" => prpCall.rounds = R
        /\ prpCall.op \in {"forward", "inverse"} =>
              /\ prpCall.status # "panic"
              /\ Len(prpCall.seq) <= R
              /\ prpCall.status = "ok" => Len(prpCall.seq) = R
              /\ \A j \in 1 .. Len(prpCall.seq) :
                    prpCall.seq[j] = (IF prpCall.op = "forward" THEN j - 1
                                      ELSE R - j)

\* C24: in the fixed-iteration inverse-CDF loop with n = min(count, bound),
\* found goes from 0 to 1 at most once, at the first k <= n with
\* u <= cdf(k), where result becomes that k; afterwards found and result
\* stay; an iteration with k > n changes none of log_pmf, cdf, result and
\* found; and with found still 0 after the last iteration the function
\* returns the clamped n.
C24_FoundLatch ==
    [][/\ (call # NoCall /\ call' # NoCall /\ call'.k = call.k + 1) =>
            /\ call.found = 1 => (call'.found = 1 /\ call'.result = call.result)
            /\ call.found = 0 =>
                  /\ call'.found = 1 <=> (call.k = call.hit /\ call.k <= call.n)
                  /\ call'.found = 1 => call'.result = call.k
                  /\ call'.found = 0 => call'.result = call.result
            /\ call.k > call.n =>
                  /\ call'.found = call.found
                  /\ call'.result = call.result
                  /\ call'.pmf_index = call.pmf_index
                  /\ call'.cdf_terms = call.cdf_terms
       /\ (call # NoCall /\ call' = NoCall /\ Len(rets') = Len(rets) + 1) =>
            /\ call.n = ct_min_u64(call.count, call.max_n)
            /\ call.found = 0 => rets'[Len(rets')].inverse_cdf = call.n
            /\ call.found = 1 => rets'[Len(rets')].inverse_cdf = call.result
      ]_vars

\* found was latched at some k >= 1 and iterations beyond n have run
C24_Witness ==
    /\ call # NoCall /\ ~call.table
    /\ call.found = 1 /\ call.result >= 1
    /\ call.k > call.n + 1

====
